---- MODULE Spec2Model ----
(***************************************************************************)
(* Model of util/numeric.cpp: the divisor set builder, the ordered         *)
(* factorization enumerator (Factors) and the boundary-residual enumerator *)
(* (ResidualFactors).                                                      *)
(*                                                                         *)
(* Tuples (std::vector) are sequences: C++ position p is index p + 1.      *)
(* A Given Assignment or a max map (std::map<unsigned, unsigned long>) is  *)
(* a function whose domain is its key set; std::map iterates its keys in   *)
(* ascending order.                                                        *)
(***************************************************************************)
EXTENDS Integers, Sequences, FiniteSets

\* ---------------------------------------------------------------- bounds
\* Factors: dimension sizes 0..MaxN, orders 0..MaxOrder, given values 1..MaxGiven
MaxN == 12
MaxOrder == 3
MaxGiven == 4
\* PruneMax: collections of Factors(n, order), n in 1..MaxPruneN,
\* order in 0..MaxPruneOrder, stated maxima in 1..MaxPruneVal
MaxPruneN == 12
MaxPruneOrder == 2
MaxPruneVal == 3

\* ResidualFactors: dimension sizes 0..MaxResN, orders 0..MaxResOrder, given
\* values 1..MaxResGiven, spatial bounds 1..MaxWidth
MaxResN == 6
MaxResOrder == 2
MaxResGiven == 2
MaxWidth == 2

\* the divisor list alone: dimension sizes 0..MaxDivN
MaxDivN == 40

\* SequenceGenerator128: bounds 1..MaxSeqBound, up to MaxCalls calls of Next()
MaxSeqBound == 6
MaxCalls == 15

\* RandomGenerator128: the arithmetic of std::uint64_t and uint128_t scaled to
\* words of WordBits bits and double words of 2 * WordBits bits
WordBits == 3

\* RandomGenerator128: up to MaxRandCalls calls of Next()
MaxRandCalls == 2

\* ------------------------------------------------------- program constants
\* "one = 1 << 30" in ISqrt_
OneInit == 1073741824

\* the end() iterator of a std::map
END == -1

\* ---------------------------------------------------------------- helpers
RECURSIVE Prod(_)
\* product of the entries of a tuple
Prod(s) == IF s = <<>> THEN 1 ELSE Head(s) * Prod(Tail(s))

RECURSIVE ConcatRange(_, _, _)
ConcatRange(ss, lo, hi) ==
  IF lo > hi THEN <<>>
  ELSE IF lo = hi THEN ss[lo]
  ELSE LET mid == (lo + hi) \div 2
       IN ConcatRange(ss, lo, mid) \o ConcatRange(ss, mid + 1, hi)

\* concatenation, in order, of a sequence of sequences (vector::insert at end())
Concat(ss) == ConcatRange(ss, 1, Len(ss))

\* the elements of a sequence
Range(s) == {s[j] : j \in DOMAIN s}

\* smallest element of a non-empty set of integers
Min(S) == CHOOSE x \in S : \A y \in S : x <= y

\* std::map::begin(): the smallest key, or end()
Begin(m) == IF DOMAIN m = {} THEN END ELSE Min(DOMAIN m)

\* ++ on a std::map iterator that points at key k of m (k need not be a key
\* of m any more: erase returns the successor of the erased key)
NextKey(m, k) ==
  LET later == {x \in DOMAIN m : x > k}
  IN IF later = {} THEN END ELSE Min(later)

\* std::map::erase(iterator): the map without key k
Erase(m, k) == [x \in DOMAIN m \ {k} |-> m[x]]

\* all maps from some positions below `order` to values in 1..maxval
Maps(order, maxval) ==
  UNION {[D -> 1..maxval] : D \in SUBSET (0..(order - 1))}

RECURSIVE Tuples(_, _)
\* all tuples of length k over the set S
Tuples(k, S) ==
  IF k = 0 THEN {<<>>}
  ELSE {Append(t, x) : t \in Tuples(k - 1, S), x \in S}

\* ------------------------------------------------------------ ISqrt_
RECURSIVE ISqrtShrink(_, _)
\* while (one > op) one >>= 2;
ISqrtShrink(one, op) ==
  IF one > op THEN ISqrtShrink(one \div 4, op) ELSE one

RECURSIVE ISqrtLoop(_, _, _)
\* while (one != 0) { if (op >= res + one) {...} res >>= 1; one >>= 2; }
ISqrtLoop(op, res, one) ==
  IF one # 0
  THEN IF op >= res + one
       THEN ISqrtLoop(op - (res + one), (res + 2 * one) \div 2, one \div 4)
       ELSE ISqrtLoop(op, res \div 2, one \div 4)
  ELSE res

ISqrt_(x) == ISqrtLoop(x, 0, ISqrtShrink(OneInit, x))

\* ------------------------------------------------ Factors: divisor list
\* the divisor pushed twice when i * i = n: the test of line 69 left out
FactorsDivisorBodyNoSquareTest(n, i, acc) ==
  IF n % i = 0 THEN acc \o <<i, n \div i>> ELSE acc

\* one pass through the body of the loop of Factors::CalculateAllFactors_
FactorsDivisorBody(n, i, acc) ==
  IF n % i = 0
  THEN IF i * i # n
       THEN acc \o <<i, n \div i>>
       ELSE Append(acc, i)
  ELSE acc

RECURSIVE FactorsDivisorLoop(_, _, _)
\* the loop of Factors::CalculateAllFactors_ from i on, all_factors_ = acc
FactorsDivisorLoop(n, i, acc) ==
  IF i <= ISqrt_(n)
  THEN FactorsDivisorLoop(n, i + 1, FactorsDivisorBody(n, i, acc))
  ELSE acc

\* Factors::CalculateAllFactors_: all_factors_ after the call
FactorsCalculateAllFactors_(n) == FactorsDivisorLoop(n, 1, <<>>)

\* ------------------------------------------------ Factors: enumeration
RECURSIVE SplitStopsBeforeLastFactor(_, _, _)
\* the enumeration with its factor loop ending one element early
SplitStopsBeforeLastFactor(af, n, order) ==
  IF order = 0 THEN << <<>> >>
  ELSE IF order = 1 THEN << <<n>> >>
  ELSE LET perFactor(k) ==
             IF n % af[k] = 0
             THEN LET subproblem ==
                        SplitStopsBeforeLastFactor(af, n \div af[k], order - 1)
                  IN [j \in DOMAIN subproblem |-> Append(subproblem[j], af[k])]
             ELSE <<>>
       IN Concat([k \in 1..(Len(af) - 1) |-> perFactor(k)])

RECURSIVE SplitNothingAtOrderZero(_, _, _)
\* the enumeration with "return {};" for order 0
SplitNothingAtOrderZero(af, n, order) ==
  IF order = 0 THEN <<>>
  ELSE IF order = 1 THEN << <<n>> >>
  ELSE LET perFactor(k) ==
             IF n % af[k] = 0
             THEN LET subproblem ==
                        SplitNothingAtOrderZero(af, n \div af[k], order - 1)
                  IN [j \in DOMAIN subproblem |-> Append(subproblem[j], af[k])]
             ELSE <<>>
       IN Concat([k \in DOMAIN af |-> perFactor(k)])

RECURSIVE MultiplicativeSplitRecursive_(_, _, _)
\* all order-way cofactor sets of n, drawing factors from all_factors (af)
MultiplicativeSplitRecursive_(af, n, order) ==
  IF order = 0 THEN << <<>> >>
  ELSE IF order = 1 THEN << <<n>> >>
  ELSE LET perFactor(k) ==
             IF n % af[k] = 0
             THEN LET subproblem ==
                        MultiplicativeSplitRecursive_(af, n \div af[k], order - 1)
                  IN [j \in DOMAIN subproblem |-> Append(subproblem[j], af[k])]
             ELSE <<>>
       IN Concat([k \in DOMAIN af |-> perFactor(k)])

\* push_back(value) in place of the positional insert
InsertAtEnd(s, index, value) == Append(s, value)

\* vector::insert(begin() + index, value)
InsertAt(s, index, value) ==
  SubSeq(s, 1, index) \o <<value>> \o SubSeq(s, index + 1, Len(s))

RECURSIVE SpliceFrom(_, _, _)
\* the loop "for (auto& given_factor : given)" over one tuple, from key k on
SpliceFrom(t, g, k) ==
  IF k = END THEN t
  ELSE SpliceFrom(InsertAt(t, k, g[k]), g, NextKey(g, k))

\* one tuple with every given factor inserted at its index
SpliceGiven(t, g) == SpliceFrom(t, g, Begin(g))

RECURSIVE SpliceAssertsFrom(_, _, _)
\* assert(index <= cofactors.size()) holds at every insertion into t
SpliceAssertsFrom(t, g, k) ==
  IF k = END THEN TRUE
  ELSE /\ k <= Len(t)
       /\ SpliceAssertsFrom(InsertAt(t, k, g[k]), g, NextKey(g, k))

SpliceAsserts(t, g) == SpliceAssertsFrom(t, g, Begin(g))

\* Factors::Factors(n, order, given) after the validation loop left the map
\* g and partial product pp: the members, and whether every assert held
FactorsGivenBody(n, ord, g, pp) ==
  LET af == FactorsCalculateAllFactors_(n)
      split == MultiplicativeSplitRecursive_(af, n \div pp, ord - Cardinality(DOMAIN g))
      asserts == \A j \in DOMAIN split : SpliceAsserts(split[j], g)
  IN [all_factors |-> af,
      cofactors |-> IF asserts THEN [j \in DOMAIN split |-> SpliceGiven(split[j], g)]
                    ELSE split,
      asserts |-> asserts]

\* ------------------------------------------------ Factors: PruneMax
RECURSIVE IllegalFrom(_, _, _)
\* the inner loop of PruneMax over the max map, from key k on
IllegalFrom(t, max, k) ==
  IF k = END THEN FALSE
  ELSE IF t[k + 1] > max[k] THEN TRUE
  ELSE IllegalFrom(t, max, NextKey(max, k))

RECURSIVE IllegalAtMaxFrom(_, _, _)
IllegalAtMaxFrom(t, max, k) ==
  IF k = END THEN FALSE
  ELSE IF t[k + 1] >= max[k] THEN TRUE
  ELSE IllegalAtMaxFrom(t, max, NextKey(max, k))

\* the bound test with >= in place of >
IllegalAtMax(t, max) == IllegalAtMaxFrom(t, max, Begin(max))

\* whether PruneMax finds tuple t illegal under max
Illegal(t, max) == IllegalFrom(t, max, Begin(max))

RECURSIVE PruneLoop(_, _, _)
\* the while loop of PruneMax with the iterator at index j of collection c
PruneLoop(c, max, j) ==
  IF j > Len(c) THEN c
  ELSE IF Illegal(c[j], max)
       THEN PruneLoop(SubSeq(c, 1, j - 1) \o SubSeq(c, j + 1, Len(c)), max, j)
       ELSE PruneLoop(c, max, j + 1)

RECURSIVE PruneLoopSkipping(_, _, _)
PruneLoopSkipping(c, max, j) ==
  IF j > Len(c) THEN c
  ELSE IF Illegal(c[j], max)
       THEN PruneLoopSkipping(SubSeq(c, 1, j - 1) \o SubSeq(c, j + 1, Len(c)), max, j + 1)
       ELSE PruneLoopSkipping(c, max, j + 1)

\* the erase loop advancing the iterator after an erase as well
PruneMaxSkipping(c, max) == PruneLoopSkipping(c, max, 1)

\* Factors::PruneMax: cofactors_ after the call
PruneMax(c, max) == PruneLoop(c, max, 1)

\* ------------------------------------------------ ResidualFactors
RECURSIVE SortedSeq(_)
\* the elements of a std::set in iteration (ascending) order
SortedSeq(S) ==
  IF S = {} THEN <<>> ELSE <<Min(S)>> \o SortedSeq(S \ {Min(S)})

\* one pass through the body of the loop of ResidualFactors::CalculateAllFactors_
ResidualDivisorBody(n, i, acc) ==
  IF n % i = 0
  THEN IF i * i # n
       THEN acc \cup {i} \cup {n \div i}
       ELSE acc \cup {i}
  ELSE acc

RECURSIVE ResidualDivisorLoop(_, _, _)
\* the loop of ResidualFactors::CalculateAllFactors_ from i on
ResidualDivisorLoop(n, i, acc) ==
  IF i <= ISqrt_(n)
  THEN ResidualDivisorLoop(n, i + 1, ResidualDivisorBody(n, i, acc))
  ELSE acc

\* ClearAllFactors_() then CalculateAllFactors_(): all_factors_ (a std::set)
ResidualCalculateAllFactors_(n) == ResidualDivisorLoop(n, 1, {})

\* ceil((double)a / (double)b) for b >= 1
CeilDiv(a, b) == (a + b - 1) \div b

\* the values 1..s of every spatial bound s (spatial_possible)
SpatialPossible(sf) == UNION {1..sf[j] : j \in DOMAIN sf}

\* what CalculateSpatialFactors_ inserts into all_factors_ for one width w
SpatialFactorsOf(n, w) ==
  LET g == w * n * CeilDiv(n, w)
  IN {i \in 1..n : g % i = 0 /\ i < n}
       \cup {g \div i : i \in {x \in 1..n : g % x = 0 /\ x * x # g /\ g \div x < n}}

\* CalculateSpatialFactors_: all_factors_ after the call
CalculateSpatialFactors_(n, sf, af) ==
  af \cup UNION {SpatialFactorsOf(n, w) : w \in SpatialPossible(sf)}

RECURSIVE CartFrom(_, _, _)
CartFrom(v, k, s) ==
  IF k > Len(v) THEN s
  ELSE CartFrom(v, k + 1,
         Concat([x \in DOMAIN s |-> [y \in DOMAIN v[k] |-> Append(s[x], v[k][y])]]))

\* ResidualFactors::cart_product
cart_product(v) == CartFrom(v, 1, << <<>> >>)

\* (unsigned int)(pow((double)n_, 1.0/2.0) + 1.5): the largest t with
\* t - 1.5 <= sqrt(n), that is, 2t - 3 <= 0 or (2t - 3)^2 <= 4n
SqrtThreshold(n) ==
  LET AtMost(t) == 2 * t - 3 <= 0 \/ (2 * t - 3) * (2 * t - 3) <= 4 * n
  IN CHOOSE t \in 1..(n + 2) : AtMost(t) /\ ~AtMost(t + 1)

\* inter_factors of pass `rec`, after std::swap(inter_factors[0], inter_factors[rec])
InterFactors(af, n, order, rec) ==
  LET T == SqrtThreshold(n)
      v2(i) ==
        LET Keep(a) == \/ (i = 0 /\ rec = 0)
                       \/ (a <= T /\ i > 0)
                       \/ (rec > 0 /\ i = 0 /\ a >= T)
        IN SelectSeq(SortedSeq(af), Keep)
      inter == [j \in 1..order |-> v2(j - 1)]
  IN [j \in 1..order |->
        IF j = 1 THEN inter[rec + 1]
        ELSE IF j = rec + 1 THEN inter[1]
        ELSE inter[j]]

\* replicated_factors_ after the passes rec = 0 .. order - 1
ReplicatedFactors(af, n, order) ==
  Concat([r \in 1..order |-> cart_product(InterFactors(af, n, order, r - 1))])

RECURSIVE ProdMinusOne(_)
\* product of (p - 1) over the entries p # 1 of t
ProdMinusOne(t) ==
  IF t = <<>> THEN 1
  ELSE (IF Head(t) # 1 THEN Head(t) - 1 ELSE 1) * ProdMinusOne(Tail(t))

\* GenerateFactorProduct_(n, order) on an object of dimension size n0:
\* pruned_product_factors_ after the call
GenerateFactorProduct_(af, n0, n, order) ==
  LET Admissible(t) == ProdMinusOne(t) <= n
  IN SelectSeq(ReplicatedFactors(af, n0, order), Admissible)

RECURSIVE Sum(_)
Sum(t) == IF t = <<>> THEN 0 ELSE Head(t) + Sum(Tail(t))

\* GenerateResidual_(n, order): pruned_residual_factors_ after the call
GenerateResidual_(sf, n, order) ==
  LET Kept(t) == Sum(t) <= n + order
  IN SelectSeq(cart_product([j \in DOMAIN sf |-> [x \in 1..sf[j] |-> x]]), Kept)

RECURSIVE ResidualVectorFrom(_, _, _, _, _, _)
\* the loop over i = 0 .. f.size() - 1 of EquationSolver_, from position i on,
\* with s_i spatial positions met so far: the residual vector and the flags
ResidualVectorFrom(f, r, sf, six, i, acc) ==
  IF i >= Len(f) \/ acc.threw THEN acc
  ELSE IF i \in Range(six)
       THEN IF acc.s_i >= Len(r)
            THEN [acc EXCEPT !.threw = TRUE]
            ELSE ResidualVectorFrom(f, r, sf, six, i + 1,
                   [acc EXCEPT !.vrf = Append(@, r[acc.s_i + 1]),
                               !.valid = @ /\ ~(f[i + 1] > sf[acc.s_i + 1]),
                               !.s_i = @ + 1])
       ELSE ResidualVectorFrom(f, r, sf, six, i + 1,
              [acc EXCEPT !.vrf = Append(@, f[i + 1])])

\* valid_residual_factors, the spatial part of `valid`, and whether r.at()
\* threw, for candidate f and residual candidate r
ResidualVector(f, r, sf, six) ==
  ResidualVectorFrom(f, r, sf, six, 0,
                     [vrf |-> <<>>, valid |-> TRUE, s_i |-> 0, threw |-> FALSE])

RECURSIVE EquationFrom(_, _, _, _)
EquationFrom(f, vrf, j, eq) ==
  IF j = 0 THEN eq
  ELSE EquationFrom(f, vrf, j - 1, f[j] * eq + (vrf[j] - 1))

\* equation_answer. unsigned long arithmetic is modulo 2^64; within the
\* bounds every value has magnitude far below 2^63, so the wrapped
\* equation_answer + 1 equals n exactly when the integers do.
EquationAnswer(f, vrf) == EquationFrom(f, vrf, Len(f), 0)

\* the acceptance test without "if (f.at(j-1) < valid_residual_factors.at(j-1))"
AcceptsAnyResidual(n, f, rv) ==
  /\ EquationAnswer(f, rv.vrf) + 1 = n
  /\ rv.valid

\* the test that lets EquationSolver_ append (f, valid_residual_factors)
Accepts(n, f, rv) ==
  /\ EquationAnswer(f, rv.vrf) + 1 = n
  /\ rv.valid
  /\ \A j \in DOMAIN f : ~(f[j] < rv.vrf[j])

\* EquationSolver_(n, given) on the candidates ppf and prf: the pairs
\* <<f, valid_residual_factors>> appended, in order, and whether at() threw
EquationSolver_(n, g, ppf, prf, sf, six) ==
  LET spliced == [j \in DOMAIN ppf |-> SpliceGiven(ppf[j], g)]
      rvs == [j \in DOMAIN spliced |->
                [k \in DOMAIN prf |-> ResidualVector(spliced[j], prf[k], sf, six)]]
      perF(j) ==
        LET Ok(k) == Accepts(n, spliced[j], rvs[j][k])
        IN [k \in DOMAIN prf |-> IF Ok(k) THEN << <<spliced[j], rvs[j][k].vrf>> >> ELSE <<>>]
  IN [pairs |-> Concat([j \in DOMAIN spliced |-> Concat(perF(j))]),
      threw |-> \E j \in DOMAIN spliced : \E k \in DOMAIN prf : rvs[j][k].threw]

RECURSIVE Reverse(_)
\* std::reverse
Reverse(t) == IF t = <<>> THEN <<>> ELSE Append(Reverse(Tail(t)), Head(t))

\* std::map<unsigned, unsigned long> given = {{}}: one value-initialized
\* element, the pair (0, 0)
BracedEmptyMap == [x \in {0} |-> 0]

\* ResidualFactors(n, order, spatial, spatial_indices) up to the return of
\* EquationSolver_: the members, and whether r.at() threw on the way
ResidualPlainSolved(n, ord, sf, six) ==
  LET af == CalculateSpatialFactors_(n, sf, ResidualCalculateAllFactors_(n))
      ppf == GenerateFactorProduct_(af, n, n, ord)
      prf == GenerateResidual_(sf, n, ord)
      sol == EquationSolver_(n, BracedEmptyMap, ppf, prf, sf, six)
  IN [all_factors |-> af,
      cofactors |-> [j \in DOMAIN sol.pairs |-> sol.pairs[j][1]],
      rfactors |-> [j \in DOMAIN sol.pairs |-> sol.pairs[j][2]],
      threw |-> sol.threw]

\* ResidualFactors(n, order, spatial, spatial_indices): the members after
\* the constructor, and whether r.at() threw on the way
ResidualPlainBody(n, ord, sf, six) ==
  LET solved == ResidualPlainSolved(n, ord, sf, six)
  IN [all_factors |-> solved.all_factors,
      cofactors |-> [j \in DOMAIN solved.cofactors |-> Reverse(solved.cofactors[j])],
      rfactors |-> [j \in DOMAIN solved.rfactors |-> Reverse(solved.rfactors[j])],
      threw |-> solved.threw]

\* ResidualFactors(n, order, spatial, spatial_indices, given) after the
\* validation loop left the map g and partial product pp
ResidualGivenBody(n, ord, sf, six, g, pp) ==
  LET af == CalculateSpatialFactors_(n, sf, ResidualCalculateAllFactors_(n))
      rest == ord - Cardinality(DOMAIN g)
      ppf == GenerateFactorProduct_(af, n, n \div pp, rest)
      prf == GenerateResidual_(sf, n \div pp, rest)
      sol == EquationSolver_(n, g, ppf, prf, sf, six)
  IN [all_factors |-> af,
      cofactors |-> [j \in DOMAIN sol.pairs |-> sol.pairs[j][1]],
      rfactors |-> [j \in DOMAIN sol.pairs |-> sol.pairs[j][2]],
      threw |-> sol.threw]

\* ---------------------------------------------------------------- state
VARIABLES
  cls,              \* "Factors" or "ResidualFactors"
  ctor,             \* "plain": (n, order [, spatial...]); "given": with a Given Assignment
  n_,               \* the dimension size
  order,            \* the constructor's order argument
  given,            \* the constructor's by-value `given` map
  it,               \* the validation loop's iterator f: a key of given, or END
  partial_product,  \* the validation loop's partial_product
  all_factors_,
  cofactors_,
  rfactors_,
  spatial,          \* the constructor's `spatial` argument
  spatial_indices,  \* the constructor's `spatial_indices` argument
  spatial_factors_,
  spatial_ix_,
  max,              \* the argument of the latest PruneMax call, or NoMax
  loop_i,           \* the counter i of the loop of CalculateAllFactors_
  index,            \* the argument of the latest operator[] call
  ret,              \* what that call returned
  bound_,           \* PatternGenerator128::bound_
  autoloop_,        \* SequenceGenerator128
  cur_,
  retval,           \* what the latest SequenceGenerator128::Next() returned
  calls,            \* the number of Next() calls made so far
  use_two_generators_,  \* RandomGenerator128
  low_gen_,         \* the upper parameter b of low_gen_(0, b)
  high_gen_,        \* the upper parameter b of high_gen_(0, b)
  low,              \* the locals of the latest RandomGenerator128::Next()
  high,
  rand,
  pc                \* "validate", "build", "done", "failed"

vars == <<cls, ctor, n_, order, given, it, partial_product, all_factors_,
          cofactors_, rfactors_, spatial, spatial_indices, spatial_factors_,
          spatial_ix_, max, loop_i, index, ret, bound_, autoloop_, cur_, retval,
          calls, use_two_generators_, low_gen_, high_gen_, low, high, rand, pc>>

\* what only operator[] touches
accvars == <<index, ret>>

\* the members and locals of the 128-bit pattern generators
genvars == <<bound_, autoloop_, cur_, retval, calls, use_two_generators_,
             low_gen_, high_gen_, low, high, rand>>

\* no operator[] call made yet
IdleAccess == index = 0 /\ ret = <<>>

\* no pattern generator in play
IdleGenerators ==
  /\ bound_ = 0 /\ autoloop_ = FALSE /\ cur_ = 0 /\ retval = 0 /\ calls = 0
  /\ use_two_generators_ = FALSE /\ low_gen_ = 0 /\ high_gen_ = 0
  /\ low = 0 /\ high = 0 /\ rand = 0

\* what only the ResidualFactors constructors touch
resvars == <<rfactors_, spatial, spatial_indices, spatial_factors_, spatial_ix_>>

\* no PruneMax call yet: a map no caller can pass (its key is END)
NoMax == [x \in {END} |-> 0]
NoGiven == << >>

\* ------------------------------------------------ the validation loop
\* One iteration of "for (auto f = given.begin(); f != given.end(); f++)":
\* the factor is accumulated, or erased; erase returns the successor and the
\* loop's f++ then steps over it. When erase returned end(), f++ increments
\* the end iterator, which is undefined: the iterator may come to rest on
\* any remaining entry or on end(), or the program may crash or hang.
ValidateAccept ==
  /\ pc = "validate" /\ it # END
  /\ n_ % (given[it] * partial_product) = 0
  /\ partial_product' = partial_product * given[it]
  /\ it' = NextKey(given, it)
  /\ UNCHANGED <<accvars, genvars, cls, ctor, n_, order, loop_i, given, all_factors_, cofactors_, max, pc, resvars>>

ValidateEraseSkip ==
  /\ pc = "validate" /\ it # END
  /\ n_ % (given[it] * partial_product) # 0
  /\ NextKey(given, it) # END
  /\ given' = Erase(given, it)
  /\ it' = NextKey(given', NextKey(given, it))
  /\ UNCHANGED <<accvars, genvars, cls, ctor, n_, order, loop_i, partial_product, all_factors_, cofactors_, max, pc, resvars>>

ValidateEraseLast ==
  /\ pc = "validate" /\ it # END
  /\ n_ % (given[it] * partial_product) # 0
  /\ NextKey(given, it) = END
  /\ given' = Erase(given, it)
  /\ \/ /\ it' \in DOMAIN given' \cup {END}
        /\ pc' = pc
     \/ /\ it' = END
        /\ pc' = "failed"
  /\ UNCHANGED <<accvars, genvars, cls, ctor, n_, order, loop_i, partial_product, all_factors_, cofactors_, max, resvars>>

ValidateExit ==
  /\ pc = "validate" /\ it = END
  /\ pc' = "build"
  /\ UNCHANGED <<accvars, genvars, cls, ctor, n_, order, loop_i, given, it, partial_product, all_factors_,
                 cofactors_, max, resvars>>

ValidateStep ==
  \/ ValidateAccept
  \/ ValidateEraseSkip
  \/ ValidateEraseLast
  \/ ValidateExit

\* ------------------------------------------------ Factors constructors
\* Factors::Factors(n, order)
FactorsPlain ==
  /\ cls = "Factors" /\ ctor = "plain" /\ pc = "build"
  /\ \E af \in {FactorsCalculateAllFactors_(n_)} :
       /\ all_factors_' = af
       /\ cofactors_' = MultiplicativeSplitRecursive_(af, n_, order)
  /\ pc' = "done"
  /\ UNCHANGED <<accvars, genvars, cls, ctor, n_, order, loop_i, given, it, partial_product, max, resvars>>

\* Factors::Factors(n, order, given): the validation loop
FactorsValidate == cls = "Factors" /\ ctor = "given" /\ ValidateStep

\* Factors::Factors(n, order, given): from CalculateAllFactors_() to the end
FactorsGivenBuild ==
  /\ cls = "Factors" /\ ctor = "given" /\ pc = "build"
  /\ \E out \in {FactorsGivenBody(n_, order, given, partial_product)} :
       /\ all_factors_' = out.all_factors
       /\ cofactors_' = out.cofactors
       /\ pc' = IF out.asserts THEN "done" ELSE "failed"
  /\ UNCHANGED <<accvars, genvars, cls, ctor, n_, order, loop_i, given, it, partial_product, max, resvars>>

\* ------------------------------------------------ initial states
\* a call Factors(n, order) or Factors(n, order, given) about to run its body
InitFactors ==
  /\ cls = "Factors"
  /\ n_ \in 0..MaxN
  /\ order \in 0..MaxOrder
  /\ \/ /\ ctor = "plain" /\ given = NoGiven /\ pc = "build"
     \/ /\ ctor = "given" /\ given \in Maps(order, MaxGiven) /\ pc = "validate"
  /\ it = Begin(given)
  /\ partial_product = 1
  /\ all_factors_ = <<>>
  /\ cofactors_ = <<>>
  /\ rfactors_ = <<>>
  /\ spatial = <<>> /\ spatial_indices = <<>>
  /\ spatial_factors_ = <<>> /\ spatial_ix_ = <<>>
  /\ max = NoMax
  /\ loop_i = 0
  /\ IdleAccess /\ IdleGenerators

\* ------------------------------------------------ ResidualFactors constructors
\* ResidualFactors::ResidualFactors(n, order, spatial, spatial_indices)
ResidualPlain ==
  /\ cls = "ResidualFactors" /\ ctor = "plain" /\ pc = "build"
  /\ \E out \in {ResidualPlainBody(n_, order, spatial_factors_, spatial_ix_)} :
       /\ given' = BracedEmptyMap
       /\ all_factors_' = out.all_factors
       /\ cofactors_' = out.cofactors
       /\ rfactors_' = out.rfactors
       /\ pc' = IF out.threw THEN "failed" ELSE "done"
  /\ UNCHANGED <<accvars, genvars, cls, ctor, n_, order, loop_i, it, partial_product, spatial, spatial_indices,
                 spatial_factors_, spatial_ix_, max>>

\* ResidualFactors::ResidualFactors(n, order, spatial, spatial_indices, given):
\* the validation loop
ResidualValidate == cls = "ResidualFactors" /\ ctor = "given" /\ ValidateStep

\* ResidualFactors::ResidualFactors(n, order, spatial, spatial_indices, given):
\* from ClearAllFactors_() to the end
ResidualGivenBuild ==
  /\ cls = "ResidualFactors" /\ ctor = "given" /\ pc = "build"
  /\ \E out \in {ResidualGivenBody(n_, order, spatial_factors_, spatial_ix_,
                                    given, partial_product)} :
       /\ all_factors_' = out.all_factors
       /\ cofactors_' = out.cofactors
       /\ rfactors_' = out.rfactors
       /\ spatial_factors_' = IF out.threw THEN spatial_factors_ ELSE <<>>
       /\ spatial_ix_' = IF out.threw THEN spatial_ix_ ELSE <<>>
       /\ pc' = IF out.threw THEN "failed" ELSE "done"
  /\ UNCHANGED <<accvars, genvars, cls, ctor, n_, order, loop_i, given, it, partial_product, spatial,
                 spatial_indices, max>>

\* the lists of distinct positions below ord, in any order
PositionLists(ord) ==
  {s \in UNION {Tuples(k, 0..(ord - 1)) : k \in 0..ord} :
     \A a, b \in DOMAIN s : a # b => s[a] # s[b]}

\* a call of a ResidualFactors constructor about to run its body, the
\* members initialized from the arguments
InitResidual ==
  /\ cls = "ResidualFactors"
  /\ n_ \in 0..MaxResN
  /\ order \in 0..MaxResOrder
  /\ spatial_indices \in PositionLists(order)
  /\ spatial \in Tuples(Len(spatial_indices), 1..MaxWidth)
  /\ spatial_factors_ = spatial
  /\ spatial_ix_ = spatial_indices
  /\ \/ /\ ctor = "plain" /\ given = NoGiven /\ pc = "build"
     \/ /\ ctor = "given" /\ given \in Maps(order, MaxResGiven) /\ pc = "validate"
  /\ it = Begin(given)
  /\ partial_product = 1
  /\ all_factors_ = {}
  /\ cofactors_ = <<>>
  /\ rfactors_ = <<>>
  /\ max = NoMax
  /\ loop_i = 0
  /\ IdleAccess /\ IdleGenerators

Init == InitFactors \/ InitResidual

Next ==
  \/ FactorsPlain
  \/ FactorsValidate
  \/ FactorsGivenBuild
  \/ ResidualPlain
  \/ ResidualValidate
  \/ ResidualGivenBuild

Spec == Init /\ [][Next]_vars

\* ------------------------------------------------ Factors::PruneMax
\* a call PruneMax(m) on a constructed Factors object
FactorsPruneMax ==
  /\ cls = "Factors" /\ pc = "done"
  /\ \E m \in Maps(order, MaxPruneVal) :
       /\ cofactors_' = PruneMax(cofactors_, m)
       /\ max' = m
  /\ UNCHANGED <<accvars, genvars, cls, ctor, n_, order, loop_i, given, it, partial_product, all_factors_, pc, resvars>>

\* a call Factors(n, order) whose collection is pruned afterwards
InitPrune ==
  /\ cls = "Factors"
  /\ ctor = "plain"
  /\ n_ \in 1..MaxPruneN
  /\ order \in 0..MaxPruneOrder
  /\ given = NoGiven
  /\ pc = "build"
  /\ it = END
  /\ partial_product = 1
  /\ all_factors_ = <<>>
  /\ cofactors_ = <<>>
  /\ rfactors_ = <<>>
  /\ spatial = <<>> /\ spatial_indices = <<>>
  /\ spatial_factors_ = <<>> /\ spatial_ix_ = <<>>
  /\ max = NoMax
  /\ loop_i = 0
  /\ IdleAccess /\ IdleGenerators

NextPrune ==
  \/ FactorsPlain
  \/ FactorsPruneMax

SpecPrune == InitPrune /\ [][NextPrune]_vars

\* ------------------------------------------------ CalculateAllFactors_, stepwise
\* one iteration of "for (unsigned long i = 1; i <= ISqrt_(n_); i++)" of
\* Factors::CalculateAllFactors_
FactorsDivisorStep ==
  /\ cls = "Factors" /\ pc = "calc"
  /\ loop_i <= ISqrt_(n_)
  /\ all_factors_' = FactorsDivisorBody(n_, loop_i, all_factors_)
  /\ loop_i' = loop_i + 1
  /\ UNCHANGED <<accvars, genvars, cls, ctor, n_, order, given, it, partial_product, cofactors_, max, pc, resvars>>

\* the loop condition of Factors::CalculateAllFactors_ fails: return
FactorsDivisorExit ==
  /\ cls = "Factors" /\ pc = "calc"
  /\ ~(loop_i <= ISqrt_(n_))
  /\ pc' = "done"
  /\ UNCHANGED <<accvars, genvars, cls, ctor, n_, order, loop_i, given, it, partial_product, all_factors_,
                 cofactors_, max, resvars>>

\* one iteration of the loop of ResidualFactors::CalculateAllFactors_
ResidualDivisorStep ==
  /\ cls = "ResidualFactors" /\ pc = "calc"
  /\ loop_i <= ISqrt_(n_)
  /\ all_factors_' = ResidualDivisorBody(n_, loop_i, all_factors_)
  /\ loop_i' = loop_i + 1
  /\ UNCHANGED <<accvars, genvars, cls, ctor, n_, order, given, it, partial_product, cofactors_, max, pc, resvars>>

\* the loop condition of ResidualFactors::CalculateAllFactors_ fails: return
ResidualDivisorExit ==
  /\ cls = "ResidualFactors" /\ pc = "calc"
  /\ ~(loop_i <= ISqrt_(n_))
  /\ pc' = "done"
  /\ UNCHANGED <<accvars, genvars, cls, ctor, n_, order, loop_i, given, it, partial_product, all_factors_,
                 cofactors_, max, resvars>>

\* a call of CalculateAllFactors_ on an object of either class, all_factors_
\* cleared (all_factors_.clear() / ClearAllFactors_()), about to run i = 1
InitDiv ==
  /\ cls \in {"Factors", "ResidualFactors"}
  /\ ctor = "plain"
  /\ n_ \in 0..MaxDivN
  /\ order = 0
  /\ given = NoGiven
  /\ it = END
  /\ partial_product = 1
  /\ all_factors_ = IF cls = "Factors" THEN <<>> ELSE {}
  /\ cofactors_ = <<>>
  /\ rfactors_ = <<>>
  /\ spatial = <<>> /\ spatial_indices = <<>>
  /\ spatial_factors_ = <<>> /\ spatial_ix_ = <<>>
  /\ max = NoMax
  /\ loop_i = 1
  /\ IdleAccess /\ IdleGenerators
  /\ pc = "calc"

NextDiv ==
  \/ FactorsDivisorStep
  \/ FactorsDivisorExit
  \/ ResidualDivisorStep
  \/ ResidualDivisorExit

\* the call is synchronous and single-threaded: a step that can run, runs
SpecDiv == InitDiv /\ [][NextDiv]_vars /\ WF_vars(NextDiv)

\* ------------------------------------------------ ResidualFactors constructors,
\* in two steps: up to the return of EquationSolver_, and the rest
\* ResidualFactors(n, order, spatial, spatial_indices), lines 538 to 544
ResidualPlainSolve ==
  /\ cls = "ResidualFactors" /\ ctor = "plain" /\ pc = "build"
  /\ \E out \in {ResidualPlainSolved(n_, order, spatial_factors_, spatial_ix_)} :
       /\ given' = BracedEmptyMap
       /\ all_factors_' = out.all_factors
       /\ cofactors_' = out.cofactors
       /\ rfactors_' = out.rfactors
       /\ pc' = IF out.threw THEN "failed" ELSE "solved"
  /\ UNCHANGED <<accvars, genvars, cls, ctor, n_, order, loop_i, it, partial_product, spatial, spatial_indices,
                 spatial_factors_, spatial_ix_, max>>

\* ResidualFactors(n, order, spatial, spatial_indices), lines 546 to 550
ResidualPlainReverse ==
  /\ cls = "ResidualFactors" /\ ctor = "plain" /\ pc = "solved"
  /\ cofactors_' = [j \in DOMAIN cofactors_ |-> Reverse(cofactors_[j])]
  /\ rfactors_' = [j \in DOMAIN rfactors_ |-> Reverse(rfactors_[j])]
  /\ pc' = "done"
  /\ UNCHANGED <<accvars, genvars, cls, ctor, n_, order, loop_i, given, it, partial_product, all_factors_,
                 spatial, spatial_indices, spatial_factors_, spatial_ix_, max>>

\* ResidualFactors(n, order, spatial, spatial_indices, given), lines 600 to 614
ResidualGivenSolve ==
  /\ cls = "ResidualFactors" /\ ctor = "given" /\ pc = "build"
  /\ \E out \in {ResidualGivenBody(n_, order, spatial_factors_, spatial_ix_,
                                    given, partial_product)} :
       /\ all_factors_' = out.all_factors
       /\ cofactors_' = out.cofactors
       /\ rfactors_' = out.rfactors
       /\ pc' = IF out.threw THEN "failed" ELSE "solved"
  /\ UNCHANGED <<accvars, genvars, cls, ctor, n_, order, loop_i, given, it, partial_product, spatial,
                 spatial_indices, spatial_factors_, spatial_ix_, max>>

\* ResidualFactors(n, order, spatial, spatial_indices, given), lines 616 to 620
ResidualGivenFinish ==
  /\ cls = "ResidualFactors" /\ ctor = "given" /\ pc = "solved"
  /\ spatial_factors_' = <<>>
  /\ spatial_ix_' = <<>>
  /\ pc' = "done"
  /\ UNCHANGED <<accvars, genvars, cls, ctor, n_, order, loop_i, given, it, partial_product, all_factors_,
                 cofactors_, rfactors_, spatial, spatial_indices, max>>

NextSolve ==
  \/ ResidualValidate
  \/ ResidualPlainSolve
  \/ ResidualPlainReverse
  \/ ResidualGivenSolve
  \/ ResidualGivenFinish

SpecSolve == InitResidual /\ [][NextSolve]_vars

\* ------------------------------------------------ operator[]
\* what an out-of-range cofactors_[index] can hand back: the bytes found
\* there read as a vector, that is, any tuple at all; a tuple of the
\* collection or the empty tuple stand for it
Garbage(c) == Range(c) \cup {<<>>}

\* Factors::operator[](int index): return cofactors_[index], unchecked. An
\* index outside [0, size()) is undefined behaviour: the call may return
\* whatever lies there, or crash.
FactorsIndex ==
  /\ cls = "Factors" /\ pc = "done"
  /\ \E i \in -1..(Len(cofactors_) + 1) :
       /\ index' = i
       /\ IF i \in 0..(Len(cofactors_) - 1)
          THEN ret' = cofactors_[i + 1] /\ pc' = "returned"
          ELSE \/ ret' \in Garbage(cofactors_) /\ pc' = "returned"
               \/ ret' = <<>> /\ pc' = "crashed"
  /\ UNCHANGED <<genvars, cls, ctor, n_, order, loop_i, given, it, partial_product,
                 all_factors_, cofactors_, max, resvars>>

\* ResidualFactors::operator[](int index): cofactors_.at(index) and
\* rfactors_.at(index); at() throws std::out_of_range for an index (converted
\* to size_type) that is not below size()
ResidualIndex ==
  /\ cls = "ResidualFactors" /\ pc = "done"
  /\ \E i \in -1..(Len(cofactors_) + 1) :
       /\ index' = i
       /\ IF i \in 0..(Len(cofactors_) - 1) /\ i \in 0..(Len(rfactors_) - 1)
          THEN ret' = <<cofactors_[i + 1], rfactors_[i + 1]>> /\ pc' = "returned"
          ELSE ret' = <<>> /\ pc' = "threw"
  /\ UNCHANGED <<genvars, cls, ctor, n_, order, loop_i, given, it, partial_product,
                 all_factors_, cofactors_, max, resvars>>

\* the constructors, then one indexed access to the constructed object
NextAccess ==
  \/ Next
  \/ FactorsIndex
  \/ ResidualIndex

SpecAccess == Init /\ [][NextAccess]_vars

\* ------------------------------------------------ SequenceGenerator128
\* no enumerator object in play
IdleEnumerator ==
  /\ ctor = "none" /\ n_ = 0 /\ order = 0
  /\ given = NoGiven /\ it = END /\ partial_product = 1
  /\ all_factors_ = <<>> /\ cofactors_ = <<>> /\ rfactors_ = <<>>
  /\ spatial = <<>> /\ spatial_indices = <<>>
  /\ spatial_factors_ = <<>> /\ spatial_ix_ = <<>>
  /\ max = NoMax /\ loop_i = 0

\* SequenceGenerator128::SequenceGenerator128(bound, autoloop)
InitSequence ==
  /\ cls = "SequenceGenerator128"
  /\ bound_ \in 1..MaxSeqBound
  /\ autoloop_ \in BOOLEAN
  /\ cur_ = 0
  /\ retval = 0 /\ calls = 0
  /\ use_two_generators_ = FALSE /\ low_gen_ = 0 /\ high_gen_ = 0
  /\ low = 0 /\ high = 0 /\ rand = 0
  /\ IdleEnumerator /\ IdleAccess
  /\ pc = "ready"

\* SequenceGenerator128::Next(): retval is assigned first; a failed
\* assert(autoloop_) aborts the call before it returns
SequenceNext ==
  /\ cls = "SequenceGenerator128" /\ pc = "ready"
  /\ calls < MaxCalls
  /\ calls' = calls + 1
  /\ retval' = cur_
  /\ IF cur_ = bound_ - 1
     THEN IF autoloop_
          THEN cur_' = 0 /\ pc' = "ready"
          ELSE cur_' = cur_ /\ pc' = "failed"
     ELSE cur_' = cur_ + 1 /\ pc' = "ready"
  /\ UNCHANGED <<accvars, cls, ctor, n_, order, loop_i, given, it, partial_product,
                 all_factors_, cofactors_, max, resvars, bound_, autoloop_,
                 use_two_generators_, low_gen_, high_gen_, low, high, rand>>

NextSequence == SequenceNext

SpecSequence == InitSequence /\ [][NextSequence]_vars

\* ------------------------------------------------ RandomGenerator128
\* the number of values of a word (std::uint64_t) and of a double word
\* (uint128_t)
Word == 2 ^ WordBits
DoubleWord == Word * Word

\* uint64_max_: the largest std::uint64_t
uint64_max_ == Word - 1

\* (std::uint64_t)(x): conversion of a double-word value to a word
ToWord(x) == x % Word

\* RandomGenerator128::RandomGenerator128(bound): the member initializers
InitRandom ==
  /\ cls = "RandomGenerator128"
  /\ bound_ \in 1..(DoubleWord - 1)
  /\ use_two_generators_ = (bound_ > uint64_max_)
  /\ low_gen_ = IF use_two_generators_ THEN uint64_max_ ELSE ToWord(bound_ - 1)
  /\ high_gen_ = ToWord((bound_ \div uint64_max_ - 1) % DoubleWord)
  /\ low = 0 /\ high = 0 /\ rand = 0
  /\ autoloop_ = FALSE /\ cur_ = 0 /\ retval = 0 /\ calls = 0
  /\ IdleEnumerator /\ IdleAccess
  /\ pc = "ready"

\* RandomGenerator128::Next(): the draws of the uniform distributions are
\* any values of their ranges [0, b]
RandomNext ==
  /\ cls = "RandomGenerator128" /\ pc = "ready"
  /\ calls < MaxRandCalls
  /\ calls' = calls + 1
  /\ low' \in 0..low_gen_
  /\ IF use_two_generators_ THEN high' \in 0..high_gen_ ELSE high' = 0
  /\ rand' = (low' + high' * uint64_max_) % DoubleWord
  /\ pc' = IF rand' < bound_ THEN "ready" ELSE "failed"
  /\ UNCHANGED <<accvars, cls, ctor, n_, order, loop_i, given, it, partial_product,
                 all_factors_, cofactors_, max, resvars, bound_, autoloop_, cur_,
                 retval, use_two_generators_, low_gen_, high_gen_>>

NextRandom == RandomNext

SpecRandom == InitRandom /\ [][NextRandom]_vars

\* ================================================================ claims

\* the ordered k-tuples of positive integers whose product is n
OrderedFactorizations(n, k) == {t \in Tuples(k, 1..n) : Prod(t) = n}

RECURSIVE ProdOfValues(_, _)
\* product of the values of a map, over the keys in D
ProdOfValues(m, D) ==
  IF D = {} THEN 1
  ELSE LET k == Min(D) IN m[k] * ProdOfValues(m, D \ {k})

\* C1: for n >= 1 and order k >= 1, the collection of Factors(n, k) is, as a
\* set, exactly the set of ordered k-tuples of positive integers with
\* product n.
C1_ExactlyOrderedFactorizations ==
  (cls = "Factors" /\ ctor = "plain" /\ pc = "done" /\ n_ >= 1 /\ order >= 1)
    => Range(cofactors_) = OrderedFactorizations(n_, order)

C1_Witness ==
  /\ cls = "Factors" /\ ctor = "plain" /\ pc = "done"
  /\ n_ = 12 /\ order = 2
  /\ <<2, 6>> \in Range(cofactors_)
  /\ <<6, 2>> \in Range(cofactors_)

\* C2: every tuple of a Factors collection built with a Given Assignment
\* (positions below order) has product n.
C2_GivenProductIsN ==
  (cls = "Factors" /\ ctor = "given" /\ pc = "done" /\ n_ >= 1 /\ order >= 1)
    => \A j \in DOMAIN cofactors_ : Prod(cofactors_[j]) = n_

\* C3: every tuple of a Factors collection built with a Given Assignment has
\* exactly `order` entries and holds, at each position that remains in the
\* assignment after validation, that position's given value.
C3_GivenSplicedAtPosition ==
  (cls = "Factors" /\ ctor = "given" /\ pc = "done")
    => \A j \in DOMAIN cofactors_ :
         /\ Len(cofactors_[j]) = order
         /\ \A p \in DOMAIN given : cofactors_[j][p + 1] = given[p]

C3_Witness ==
  /\ cls = "Factors" /\ ctor = "given" /\ pc = "done"
  /\ n_ = 12 /\ order = 3
  /\ DOMAIN given = {0, 2}
  /\ given[0] = 2 /\ given[2] = 3
  /\ cofactors_ = << <<2, 2, 3>> >>

\* C4: the validation loop examines every entry, so that on loop exit
\* partial_product is the product of the entries still in the assignment
\* and divides n.
C4_ValidationLoopExit ==
  (ctor = "given" /\ pc = "build")
    => /\ partial_product = ProdOfValues(given, DOMAIN given)
       /\ n_ % partial_product = 0

\* C5: a PruneMax(max) call leaves exactly the subsequence, in the original
\* order, of the tuples t with t[p] <= max[p] for every p in max.
C5_PruneMaxIsFilter ==
  [][(pc = "done" /\ pc' = "done")
       => LET Within(t) == \A p \in DOMAIN max' : t[p + 1] <= max'[p]
          IN cofactors_' = SelectSeq(cofactors_, Within)]_vars

C5_Witness ==
  /\ pc = "done" /\ n_ = 12 /\ order = 2
  /\ DOMAIN max = {0} /\ max[0] = 3
  /\ cofactors_ = << <<1, 12>>, <<2, 6>>, <<3, 4>> >>

\* C6: a second PruneMax call with the same max, right after the first,
\* leaves the collection (contents, order, size) unchanged.
C6_PruneMaxIdempotent ==
  [][(pc = "done" /\ max # NoMax /\ max' = max) => cofactors_' = cofactors_]_vars

C6_Witness ==
  /\ pc = "done" /\ n_ = 12 /\ order = 2
  /\ DOMAIN max = {0} /\ max[0] = 1
  /\ cofactors_ = << <<1, 12>> >>
  /\ PruneMax(cofactors_, max) = cofactors_

\* the mixed-radix value of residual r under radices f, position 0 (r[1], f[1])
\* least significant: the sum over i of (r[i] - 1) * product of f[m], m < i
MixedRadix(f, r) ==
  Sum([i \in DOMAIN f |-> (r[i] - 1) * Prod(SubSeq(f, 1, i - 1))])

\* C7: every (factor, residual) pair of a constructed ResidualFactors object,
\* whichever constructor built it, has 1 <= residual[i] <= factor[i] at every
\* position i, and its mixed-radix value equals n - 1.
C7_PairsReconstructN ==
  (cls = "ResidualFactors" /\ pc = "done")
    => /\ Len(rfactors_) = Len(cofactors_)
       /\ \A j \in DOMAIN cofactors_ :
            /\ Len(rfactors_[j]) = Len(cofactors_[j])
            /\ \A i \in DOMAIN cofactors_[j] :
                 1 <= rfactors_[j][i] /\ rfactors_[j][i] <= cofactors_[j][i]
            /\ MixedRadix(cofactors_[j], rfactors_[j]) = n_ - 1

C7_Witness ==
  /\ cls = "ResidualFactors" /\ pc = "done"
  /\ n_ = 5 /\ order = 2
  /\ spatial = <<2>> /\ spatial_indices = <<0>>
  /\ \E j \in DOMAIN cofactors_ :
       cofactors_[j] = <<2, 3>> /\ rfactors_[j] = <<1, 3>>

\* C8: in every pair of a constructed ResidualFactors object, the factor at
\* position spatial_indices[j] does not exceed spatial[j], for every j, in
\* whatever order the caller listed the positions.
C8_FactorWithinListedBound ==
  (cls = "ResidualFactors" /\ pc = "done")
    => \A p \in DOMAIN cofactors_ : \A j \in DOMAIN spatial_indices :
         spatial_indices[j] + 1 \in DOMAIN cofactors_[p]
           => cofactors_[p][spatial_indices[j] + 1] <= spatial[j]

Divisors(n) == {d \in 1..n : n % d = 0}

\* C10: for n >= 1, CalculateAllFactors_ returns with all_factors_ holding
\* every positive divisor of n exactly once and nothing else; for n = 0 the
\* call returns.
C10_DivisorsExactlyOnce ==
  /\ [](pc = "done" /\ n_ >= 1
          => IF cls = "Factors"
             THEN /\ Range(all_factors_) = Divisors(n_)
                  /\ Len(all_factors_) = Cardinality(Divisors(n_))
             ELSE all_factors_ = Divisors(n_))
  /\ (n_ = 0 ~> pc = "done")

C10_Witness ==
  /\ cls = "Factors" /\ pc = "done"
  /\ n_ = 36
  /\ Len(all_factors_) = 9
  /\ 6 \in Range(all_factors_)

\* C13: with no spatial bound and no Given Assignment, for n >= 1 and
\* order k >= 1, the factor tuples of ResidualFactors(n, k, {}, {}) are, as a
\* set, the ordered factorizations of n into k parts (the tuples of
\* Factors(n, k)), each of k entries, and each residual tuple equals its
\* factor tuple.
C13_NoSpatialIsFactors ==
  (cls = "ResidualFactors" /\ ctor = "plain" /\ pc = "done"
     /\ spatial = <<>> /\ n_ >= 1 /\ order >= 1)
    => /\ Range(cofactors_) = OrderedFactorizations(n_, order)
       /\ \A j \in DOMAIN cofactors_ : Len(cofactors_[j]) = order
       /\ rfactors_ = cofactors_

\* C16: no collection holds the same decomposition twice: no two indices of
\* a Factors collection hold equal tuples, no two indices of a
\* ResidualFactors collection hold equal (factor, residual) pairs.
C16_NoDuplicateDecomposition ==
  pc = "done"
    => \A a, b \in DOMAIN cofactors_ :
         a # b => IF cls = "Factors"
                  THEN cofactors_[a] # cofactors_[b]
                  ELSE <<cofactors_[a], rfactors_[a]>> # <<cofactors_[b], rfactors_[b]>>

\* C12: in both ResidualFactors constructors, what the constructor does after
\* the equation check leaves each factor tuple and each residual tuple the
\* end-to-end reversal of the tuple the equation check accepted.
C12_ExposedTuplesReversed ==
  [][(cls = "ResidualFactors" /\ pc = "solved" /\ pc' = "done")
       => /\ cofactors_' = [j \in DOMAIN cofactors_ |-> Reverse(cofactors_[j])]
          /\ rfactors_' = [j \in DOMAIN rfactors_ |-> Reverse(rfactors_[j])]]_vars

\* C11: an indexed access with an index outside [0, size()) never returns
\* a tuple or pair, on either class: it ends in an error.
C11_OutOfRangeNeverReturns ==
  pc = "returned" => index \in 0..(Len(cofactors_) - 1)

\* C14: for bound >= 1, every value Next() returns lies in [0, bound); with
\* autoloop the i-th call (i = 0, 1, ...) returns i mod bound; without
\* autoloop the calls i = 0 .. bound - 1 return i and none of them fails.
C14_SequenceReturnsAllValues ==
  cls = "SequenceGenerator128"
    => /\ (pc = "ready" /\ calls >= 1)
            => /\ retval \in 0..(bound_ - 1)
               /\ autoloop_ => retval = (calls - 1) % bound_
       /\ (~autoloop_ /\ calls \in 1..bound_)
            => pc = "ready" /\ retval = calls - 1

\* C15: for every bound >= 1 and every outcome of the draws, the value
\* low + high * uint64_max computed by RandomGenerator128::Next is below
\* bound: the assertion rand < bound_ never fails.
C15_RandBelowBound ==
  (cls = "RandomGenerator128" /\ calls >= 1)
    => rand < bound_ /\ pc # "failed"

====
